---- MODULE Spec2Model ----
(***************************************************************************)
(* SafeVision browser client: the adaptive frame-streaming and             *)
(* backpressure controller of the live page (capture loop, transmission    *)
(* gate, latency tracker, rate controller, failsafe monitor).              *)
(*                                                                         *)
(* Units.  Times are milliseconds (Date.now()).  Frame rates are kept in   *)
(* tenths of a frame per second (5 fps = 50), so that the steps 0.2, 0.3,  *)
(* 0.5 and 1.0 of the rate controller are integers; qualities are kept in  *)
(* percent (0.8 = 80).  Arithmetic is exact, where JavaScript rounds to    *)
(* the nearest double.                                                     *)
(*                                                                         *)
(* Every action is one callback of the single-threaded event loop, run to  *)
(* completion.  Two awaits split a handler into several actions: the       *)
(* canvas encode (toBlob, FileReader) between a capture tick and the emit, *)
(* and createImageBitmap between the receipt of a result and its display.  *)
(***************************************************************************)
EXTENDS Integers, Sequences, FiniteSets

VARIABLES
  now,                       \* Date.now()
  settings,                  \* the settings object
  connected,                 \* socket.connected
  hidden,                    \* document.hidden
  currentStream,             \* currentStream is non-null
  cameraRequests,            \* initCamera calls awaiting getUserMedia
  metadataPending,           \* a loadedmetadata event of the video is pending
  restartInit,               \* due times of the restart-feed setTimeout(initCamera, 500)
  isStreaming,
  frameInterval,             \* NoTimer, or the time the interval callback is next due
  frameCount,
  pendingFrames,
  lastFrameSentTime,
  currentAdaptiveFrameRate,  \* in tenths of fps
  processingLatencies,
  frameDropCount,
  isFrameBeingProcessed,
  lastProcessedFrameTime,
  processingTimeoutWarning,  \* NoTimer (null), StaleTimer (fired, handle kept) or the due time
  processingFailsafeTimer,   \* NoTimer, or the due time of the scheduled timeout
  fallbackMode,
  encoding,                  \* accepted ticks whose toBlob/FileReader callbacks are pending
  inflight,                  \* frames emitted and not yet answered by the server
  decoding,                  \* results whose createImageBitmap is pending
  ev,                        \* history: the last callback run and the values it started from
  activeSinceSuccess,        \* history: capture has run without interruption since the last success
  acceptedTotal,             \* history: ticks accepted so far
  envEvents,                 \* history: user, transport and duplicate-result events so far
  isRecording,
  recordingStartTime,        \* 0 (null) or Date.now() of the confirmed start
  recordingFetches,          \* fetches of /api/recording/start and /stop not yet settled
  recordingBtnDisabled       \* toggleRecordingBtn.disabled

vars == << now, settings, connected, hidden, currentStream, cameraRequests,
           metadataPending, restartInit, isStreaming, frameInterval, frameCount,
           pendingFrames, lastFrameSentTime, currentAdaptiveFrameRate,
           processingLatencies, frameDropCount, isFrameBeingProcessed,
           lastProcessedFrameTime, processingTimeoutWarning,
           processingFailsafeTimer, fallbackMode, encoding, inflight, decoding,
           ev, activeSinceSuccess, acceptedTotal, envEvents, isRecording,
           recordingStartTime, recordingFetches, recordingBtnDisabled >>

\* the state of the recording button and its requests
recording ==
  << isRecording, recordingStartTime, recordingFetches, recordingBtnDisabled >>

(***************************************************************************)
(* Bounds of the model.                                                    *)
(***************************************************************************)
PageLoadTime == 20000    \* Date.now() when the script runs (any value > FailsafeTimeout)
MaxTime == 35000         \* Spec: the clock stops here
MaxFrames == 2           \* Spec: ticks accepted in one run
MaxEnvEvents == 1        \* Spec: transport events, clicks and duplicated results in one run
FailsafeMaxTime == 35000 \* SpecFailsafe: the clock stops here
FailsafeMaxFrames == 1   \* SpecFailsafe: ticks accepted in one run
FailsafeMaxEnvEvents == 1 \* SpecFailsafe: user and transport events in one run
MaxCameraRequests == 2   \* overlapping initCamera calls

(***************************************************************************)
(* Program constants.                                                      *)
(***************************************************************************)
NoTimer == -1            \* a timer variable holding null
StaleTimer == -2         \* a timer variable holding the handle of a timeout that has fired
PollInterval == 100      \* setInterval(..., 100)
DropThreshold == 3       \* pendingFrames > 3
WarningTimeout == 5000   \* the stall warning
FailsafeTimeout == 10000 \* the failsafe
RestartDelay == 500      \* setTimeout(initCamera, 500) of the restart-feed button
LatencyCapacity == 10    \* processingLatencies keeps the last 10

\* a frame rate in tenths of fps, the unit of currentAdaptiveFrameRate here
Tenths(fps) == 10 * fps

Max(a, b) == IF a >= b THEN a ELSE b
Min(a, b) == IF a <= b THEN a ELSE b

RemoveAt(s, i) == [j \in 1..(Len(s) - 1) |-> IF j < i THEN s[j] ELSE s[j + 1]]

RECURSIVE Sum(_)
Sum(s) == IF s = << >> THEN 0 ELSE Head(s) + Sum(Tail(s))

\* defaultSettings of loadSettings, merged with what the settings page saved
\* (it saves frameRate and videoQuality, never the adaptive keys).
LoadedSettings(fr) ==
  [frameRate |-> fr, minFrameRate |-> 2, maxFrameRate |-> 10,
   adaptiveFrameRate |-> TRUE, videoQuality |-> 80,
   enableRecording |-> TRUE, maxRecordingDuration |-> 5]

\* window.applySettings(newSettings) as the settings page calls it: the object
\* has no adaptiveFrameRate key, so adaptive mode is off; minFrameRate and
\* maxFrameRate are then never read.
AppliedSettings(fr) ==
  [frameRate |-> fr, minFrameRate |-> 2, maxFrameRate |-> 10,
   adaptiveFrameRate |-> FALSE, videoQuality |-> 80,
   enableRecording |-> TRUE, maxRecordingDuration |-> 5]

SavedFrameRates == {1, 5}
TimeSteps == {5000}

\* The callbacks the properties below tell apart; the others are recorded
\* as "other".
Observed ==
  {"result", "result_empty", "decoded", "decode_failed", "failsafe",
   "restart_feed", "hidden", "recording_success", "recording_failure"}

Event(name) ==
  [name |-> IF name \in Observed THEN name ELSE "other",
   pending |-> pendingFrames, fallback |-> fallbackMode,
   streaming |-> isStreaming]

\* The page once its script has run: loadSettings() has read the stored
\* settings, initCamera() is waiting for the camera, the socket is connecting.
InitWith(frameRates) ==
  /\ now = PageLoadTime
  /\ \E fr \in frameRates : settings = LoadedSettings(fr)
  /\ connected = FALSE
  /\ hidden = FALSE
  /\ currentStream = FALSE
  /\ cameraRequests = 1
  /\ metadataPending = FALSE
  /\ restartInit = {}
  /\ isStreaming = FALSE
  /\ frameInterval = NoTimer
  /\ frameCount = 0
  /\ pendingFrames = 0
  /\ lastFrameSentTime = 0
  /\ currentAdaptiveFrameRate = Tenths(5)
  /\ processingLatencies = << >>
  /\ frameDropCount = 0
  /\ isFrameBeingProcessed = FALSE
  /\ lastProcessedFrameTime = 0
  /\ processingTimeoutWarning = NoTimer
  /\ processingFailsafeTimer = NoTimer
  /\ fallbackMode = FALSE
  /\ encoding = << >>
  /\ inflight = << >>
  /\ decoding = << >>
  /\ ev = [name |-> "other", pending |-> 0, fallback |-> FALSE, streaming |-> FALSE]
  /\ activeSinceSuccess = FALSE
  /\ acceptedTotal = 0
  /\ envEvents = 0
  /\ isRecording = FALSE
  /\ recordingStartTime = 0
  /\ recordingFetches = << >>
  /\ recordingBtnDisabled = FALSE

\* the default settings
Init == InitWith({5})

\* the frame rate stored by the settings page may lie outside [2, 10]
InitFailsafe == InitWith(SavedFrameRates)


(***************************************************************************)
(* Pure helpers of the controller.                                         *)
(***************************************************************************)

\* getEffectiveFrameRate, in tenths of fps
GetEffectiveFrameRate ==
  IF ~settings.adaptiveFrameRate
  THEN Tenths(settings.frameRate)
  ELSE Max(Tenths(settings.minFrameRate),
           Min(Tenths(settings.maxFrameRate), currentAdaptiveFrameRate))

\* the pacing check against the poll interval instead of 1000 / effectiveFrameRate
TooSoonForPoll ==
  now - lastFrameSentTime < PollInterval

\* now - lastFrameSentTime < 1000 / effectiveFrameRate
TooSoon ==
  (now - lastFrameSentTime) * GetEffectiveFrameRate < Tenths(1000)

\* the hard-drop penalty applied whether or not adaptive mode is on
HardDropRateAlways ==
  Max(Tenths(settings.minFrameRate), currentAdaptiveFrameRate - 5)

\* the rate after a hard drop
HardDropRate ==
  IF settings.adaptiveFrameRate
  THEN Max(Tenths(settings.minFrameRate), currentAdaptiveFrameRate - 5)
  ELSE currentAdaptiveFrameRate

\* dynamicQuality with the latency rule tried before the pending-frame rules
DynamicQualityLatencyFirst ==
  LET base == settings.videoQuality
      n == Len(processingLatencies)
  IN IF ~settings.adaptiveFrameRate THEN base
     ELSE IF n > 0 /\ Sum(processingLatencies) > 1000 * n THEN Max(40, base - 20)
     ELSE IF pendingFrames > 2 THEN Max(30, base - 30)
     ELSE IF pendingFrames > 1 THEN Max(50, base - 20)
     ELSE base

\* dynamicQuality of an accepted tick, in percent
DynamicQuality ==
  LET base == settings.videoQuality
      n == Len(processingLatencies)
  IN IF ~settings.adaptiveFrameRate THEN base
     ELSE IF pendingFrames > 2 THEN Max(30, base - 30)
     ELSE IF pendingFrames > 1 THEN Max(50, base - 20)
     ELSE IF n > 0 /\ Sum(processingLatencies) > 1000 * n THEN Max(40, base - 20)
     ELSE base

\* a full window that keeps its oldest samples and discards the new one
PushLatencyKeepOldest(lats, latency) ==
  IF Len(lats) >= LatencyCapacity THEN lats ELSE Append(lats, latency)

\* processingLatencies after push(latency) and the shift that keeps the last 10
PushLatency(lats, latency) ==
  LET pushed == Append(lats, latency)
  IN IF Len(pushed) > LatencyCapacity THEN Tail(pushed) ELSE pushed

\* the band adjustment with the test for > 2000 ms missing: a very slow
\* window is treated as a slow one
BandRateNoVerySlow(rate, lats) ==
  LET n == Len(lats)
      sum == Sum(lats)
      lo == Tenths(settings.minFrameRate)
      hi == Tenths(settings.maxFrameRate)
  IN IF sum > 1000 * n THEN Max(lo, rate - 5)
     ELSE IF sum < 300 * n THEN Min(hi, rate + 5)
     ELSE IF sum < 500 * n THEN Min(hi, rate + 2)
     ELSE rate

\* the latency-band adjustment of the rate (avgLatency = sum / n)
BandRate(rate, lats) ==
  LET n == Len(lats)
      sum == Sum(lats)
      lo == Tenths(settings.minFrameRate)
      hi == Tenths(settings.maxFrameRate)
  IN IF sum > 2000 * n THEN Max(lo, rate - 10)
     ELSE IF sum > 1000 * n THEN Max(lo, rate - 5)
     ELSE IF sum < 300 * n THEN Min(hi, rate + 5)
     ELSE IF sum < 500 * n THEN Min(hi, rate + 2)
     ELSE rate

\* the reset towards the base frame rate; pending is pendingFrames as the
\* handler finds it (the decrement comes after)
RecoveryRate(rate, lats, pending) ==
  LET n == Len(lats)
      base == Tenths(settings.frameRate)
  IN IF /\ Sum(lats) < 400 * n
        /\ pending = 0
        /\ n >= 5
        /\ \A k \in (n - 4)..n : lats[k] < 500
        /\ rate < base
     THEN Min(base, rate + 3)
     ELSE rate

\* currentAdaptiveFrameRate after a latency sample has been pushed
AdaptedRate(rate, lats, pending) ==
  IF settings.adaptiveFrameRate /\ Len(lats) >= 3
  THEN RecoveryRate(BandRate(rate, lats), lats, pending)
  ELSE rate

\* the decrement without its floor
DecrementPendingUnclamped(pending) == pending - 1

\* pendingFrames = Math.max(0, pendingFrames - 1)
DecrementPending(pending) == Max(0, pending - 1)

\* the comparison of the failsafe callback with >= for >
FailsafeExpiredAtTimeout == now - lastProcessedFrameTime >= FailsafeTimeout

\* Date.now() - lastProcessedFrameTime > 10000
FailsafeExpired == now - lastProcessedFrameTime > FailsafeTimeout

(***************************************************************************)
(* Functions of the page that several handlers call.                       *)
(***************************************************************************)

startFrameCapture ==
  IF isStreaming
  THEN UNCHANGED << isStreaming, frameInterval, pendingFrames, lastFrameSentTime,
                    currentAdaptiveFrameRate, processingLatencies, frameDropCount >>
  ELSE /\ isStreaming' = TRUE
       /\ pendingFrames' = 0
       /\ lastFrameSentTime' = 0
       /\ currentAdaptiveFrameRate' = Tenths(settings.frameRate)
       /\ processingLatencies' = << >>
       /\ frameDropCount' = 0
       /\ frameInterval' = now + PollInterval

\* a stop that flips isStreaming instead of clearing it
stopFrameCaptureToggle ==
  /\ isStreaming' = ~isStreaming
  /\ frameInterval' = NoTimer

stopFrameCapture ==
  /\ isStreaming' = FALSE
  /\ frameInterval' = NoTimer

\* setupProcessingFailsafe() arming nothing
setupProcessingFailsafeSkipped == UNCHANGED processingFailsafeTimer

setupProcessingFailsafe ==
  processingFailsafeTimer' = now + FailsafeTimeout

\* fallbackMode after enableFallbackMode()
enableFallbackMode(mode) == IF mode THEN mode ELSE TRUE

\* disableFallbackMode() leaving the flag as it is
disableFallbackModeStuck(mode) == mode

\* fallbackMode after disableFallbackMode()
disableFallbackMode(mode) == IF ~mode THEN mode ELSE FALSE

\* the synchronous part of initCamera: the stream is requested
initCamera == cameraRequests' = cameraRequests + 1


(***************************************************************************)
(* The camera.                                                             *)
(***************************************************************************)

\* getUserMedia resolves: lines 123-148 of initCamera
GetUserMediaOk ==
  /\ cameraRequests > 0
  /\ cameraRequests' = cameraRequests - 1
  /\ currentStream' = TRUE
  /\ metadataPending' = TRUE
  /\ ev' = Event("camera_ok")
  /\ UNCHANGED recording
  /\ UNCHANGED << now, settings, connected, hidden, restartInit, isStreaming,
                  frameInterval, frameCount, pendingFrames, lastFrameSentTime,
                  currentAdaptiveFrameRate, processingLatencies, frameDropCount,
                  isFrameBeingProcessed, lastProcessedFrameTime,
                  processingTimeoutWarning, processingFailsafeTimer, fallbackMode,
                  encoding, inflight, decoding, activeSinceSuccess, acceptedTotal,
                  envEvents >>

\* getUserMedia rejects, with and without facingMode: the catch of initCamera
GetUserMediaFail ==
  /\ cameraRequests > 0
  /\ cameraRequests' = cameraRequests - 1
  /\ ev' = Event("camera_failed")
  /\ UNCHANGED recording
  /\ UNCHANGED << now, settings, connected, hidden, currentStream, metadataPending,
                  restartInit, isStreaming, frameInterval, frameCount,
                  pendingFrames, lastFrameSentTime, currentAdaptiveFrameRate,
                  processingLatencies, frameDropCount, isFrameBeingProcessed,
                  lastProcessedFrameTime, processingTimeoutWarning,
                  processingFailsafeTimer, fallbackMode, encoding, inflight,
                  decoding, activeSinceSuccess, acceptedTotal, envEvents >>

\* video.onloadedmetadata
LoadedMetadata ==
  /\ metadataPending
  /\ metadataPending' = FALSE
  /\ startFrameCapture
  /\ setupProcessingFailsafe
  /\ activeSinceSuccess' = (isStreaming /\ activeSinceSuccess)
  /\ ev' = Event("loadedmetadata")
  /\ UNCHANGED recording
  /\ UNCHANGED << now, settings, connected, hidden, currentStream, cameraRequests,
                  restartInit, frameCount, isFrameBeingProcessed,
                  lastProcessedFrameTime, processingTimeoutWarning, fallbackMode,
                  encoding, inflight, decoding, acceptedTotal, envEvents >>

(***************************************************************************)
(* The capture loop: the setInterval callback of startFrameCapture.        *)
(***************************************************************************)

IntervalDue == frameInterval # NoTimer /\ now >= frameInterval

\* video.readyState is not HAVE_ENOUGH_DATA
TickNotReady ==
  /\ IntervalDue
  /\ frameInterval' = now + PollInterval
  /\ ev' = Event("tick_not_ready")
  /\ UNCHANGED recording
  /\ UNCHANGED << now, settings, connected, hidden, currentStream, cameraRequests,
                  metadataPending, restartInit, isStreaming, frameCount,
                  pendingFrames, lastFrameSentTime, currentAdaptiveFrameRate,
                  processingLatencies, frameDropCount, isFrameBeingProcessed,
                  lastProcessedFrameTime, processingTimeoutWarning,
                  processingFailsafeTimer, fallbackMode, encoding, inflight,
                  decoding, activeSinceSuccess, acceptedTotal, envEvents >>

\* a tick that fails the pacing check and is counted as a drop
TickTooSoonCounted ==
  /\ IntervalDue
  /\ TooSoon
  /\ frameDropCount' = frameDropCount + 1
  /\ frameInterval' = now + PollInterval
  /\ ev' = Event("tick_too_soon")
  /\ UNCHANGED recording
  /\ UNCHANGED << now, settings, connected, hidden, currentStream, cameraRequests,
                  metadataPending, restartInit, isStreaming, frameCount,
                  pendingFrames, lastFrameSentTime, currentAdaptiveFrameRate,
                  processingLatencies, isFrameBeingProcessed,
                  lastProcessedFrameTime, processingTimeoutWarning,
                  processingFailsafeTimer, fallbackMode, encoding, inflight,
                  decoding, activeSinceSuccess, acceptedTotal, envEvents >>

\* too soon after the last accepted frame
TickTooSoon ==
  /\ IntervalDue
  /\ TooSoon
  /\ frameInterval' = now + PollInterval
  /\ ev' = Event("tick_too_soon")
  /\ UNCHANGED recording
  /\ UNCHANGED << now, settings, connected, hidden, currentStream, cameraRequests,
                  metadataPending, restartInit, isStreaming, frameCount,
                  pendingFrames, lastFrameSentTime, currentAdaptiveFrameRate,
                  processingLatencies, frameDropCount, isFrameBeingProcessed,
                  lastProcessedFrameTime, processingTimeoutWarning,
                  processingFailsafeTimer, fallbackMode, encoding, inflight,
                  decoding, activeSinceSuccess, acceptedTotal, envEvents >>

\* the hard drop that forgets to count the dropped frame
TickHardDropUncounted ==
  /\ IntervalDue
  /\ ~TooSoon
  /\ pendingFrames > DropThreshold
  /\ frameDropCount' = frameDropCount
  /\ currentAdaptiveFrameRate' = HardDropRate
  /\ frameInterval' = now + PollInterval
  /\ ev' = Event("tick_hard_drop")
  /\ UNCHANGED recording
  /\ UNCHANGED << now, settings, connected, hidden, currentStream, cameraRequests,
                  metadataPending, restartInit, isStreaming, frameCount,
                  pendingFrames, lastFrameSentTime, processingLatencies,
                  isFrameBeingProcessed, lastProcessedFrameTime,
                  processingTimeoutWarning, processingFailsafeTimer, fallbackMode,
                  encoding, inflight, decoding, activeSinceSuccess, acceptedTotal,
                  envEvents >>

\* pendingFrames > 3: the frame is dropped and the rate lowered
TickHardDrop ==
  /\ IntervalDue
  /\ ~TooSoon
  /\ pendingFrames > DropThreshold
  /\ frameDropCount' = frameDropCount + 1
  /\ currentAdaptiveFrameRate' = HardDropRate
  /\ frameInterval' = now + PollInterval
  /\ ev' = Event("tick_hard_drop")
  /\ UNCHANGED recording
  /\ UNCHANGED << now, settings, connected, hidden, currentStream, cameraRequests,
                  metadataPending, restartInit, isStreaming, frameCount,
                  pendingFrames, lastFrameSentTime, processingLatencies,
                  isFrameBeingProcessed, lastProcessedFrameTime,
                  processingTimeoutWarning, processingFailsafeTimer, fallbackMode,
                  encoding, inflight, decoding, activeSinceSuccess, acceptedTotal,
                  envEvents >>

\* the soft drop with the rate penalty of the hard drop
TickSoftDropPenalised ==
  /\ IntervalDue
  /\ ~TooSoon
  /\ ~(pendingFrames > DropThreshold)
  /\ isFrameBeingProcessed /\ pendingFrames > 1
  /\ frameDropCount' = frameDropCount + 1
  /\ currentAdaptiveFrameRate' = HardDropRate
  /\ frameInterval' = now + PollInterval
  /\ ev' = Event("tick_soft_drop")
  /\ UNCHANGED recording
  /\ UNCHANGED << now, settings, connected, hidden, currentStream, cameraRequests,
                  metadataPending, restartInit, isStreaming, frameCount,
                  pendingFrames, lastFrameSentTime, processingLatencies,
                  isFrameBeingProcessed, lastProcessedFrameTime,
                  processingTimeoutWarning, processingFailsafeTimer, fallbackMode,
                  encoding, inflight, decoding, activeSinceSuccess, acceptedTotal,
                  envEvents >>

\* isFrameBeingProcessed && pendingFrames > 1: the frame is skipped
TickSoftDrop ==
  /\ IntervalDue
  /\ ~TooSoon
  /\ ~(pendingFrames > DropThreshold)
  /\ isFrameBeingProcessed /\ pendingFrames > 1
  /\ frameDropCount' = frameDropCount + 1
  /\ frameInterval' = now + PollInterval
  /\ ev' = Event("tick_soft_drop")
  /\ UNCHANGED recording
  /\ UNCHANGED << now, settings, connected, hidden, currentStream, cameraRequests,
                  metadataPending, restartInit, isStreaming, frameCount,
                  pendingFrames, lastFrameSentTime, currentAdaptiveFrameRate,
                  processingLatencies, isFrameBeingProcessed,
                  lastProcessedFrameTime, processingTimeoutWarning,
                  processingFailsafeTimer, fallbackMode, encoding, inflight,
                  decoding, activeSinceSuccess, acceptedTotal, envEvents >>

\* the frame is accepted and handed to the canvas encoder
TickAccept(maxFrames) ==
  /\ IntervalDue
  /\ ~TooSoon
  /\ ~(pendingFrames > DropThreshold)
  /\ ~(isFrameBeingProcessed /\ pendingFrames > 1)
  /\ acceptedTotal < maxFrames
  /\ acceptedTotal' = acceptedTotal + 1
  /\ frameCount' = frameCount + 1
  /\ lastFrameSentTime' = now
  /\ encoding' = Append(encoding, DynamicQuality)
  /\ frameInterval' = now + PollInterval
  /\ ev' = Event("tick_accept")
  /\ UNCHANGED recording
  /\ UNCHANGED << now, settings, connected, hidden, currentStream, cameraRequests,
                  metadataPending, restartInit, isStreaming, pendingFrames,
                  currentAdaptiveFrameRate, processingLatencies, frameDropCount,
                  isFrameBeingProcessed, lastProcessedFrameTime,
                  processingTimeoutWarning, processingFailsafeTimer, fallbackMode,
                  inflight, decoding, activeSinceSuccess, envEvents >>

\* the check of the toBlob callback: the recording has run for
\* settings.maxRecordingDuration minutes
RecordingExpired ==
  /\ isRecording /\ settings.enableRecording /\ recordingStartTime # 0
  /\ now - recordingStartTime >= settings.maxRecordingDuration * 60000

\* stopRecording(): the request to /api/recording/stop is started
stopRecording ==
  IF ~isRecording
  THEN UNCHANGED recording
  ELSE /\ recordingBtnDisabled' = TRUE
       /\ recordingFetches' = Append(recordingFetches, "stop")
       /\ UNCHANGED << isRecording, recordingStartTime >>

\* startRecording(): the request to /api/recording/start is started
startRecording ==
  IF ~connected \/ ~isStreaming
  THEN UNCHANGED recording
  ELSE /\ recordingBtnDisabled' = TRUE
       /\ recordingFetches' = Append(recordingFetches, "start")
       /\ UNCHANGED << isRecording, recordingStartTime >>

\* the toBlob callback and reader.onload of the i-th pending encode: the
\* frame is emitted
EncodeDone(i) ==
  /\ i \in DOMAIN encoding
  /\ encoding' = RemoveAt(encoding, i)
  /\ isFrameBeingProcessed' = TRUE
  /\ pendingFrames' = pendingFrames + 1
  /\ inflight' = Append(inflight, [timestamp |-> now, frameId |-> frameCount,
                                   quality |-> encoding[i]])
  /\ processingTimeoutWarning' =
       IF processingTimeoutWarning = NoTimer
       THEN now + WarningTimeout
       ELSE processingTimeoutWarning
  /\ IF RecordingExpired THEN stopRecording ELSE UNCHANGED recording
  /\ ev' = Event("emit")
  /\ UNCHANGED << now, settings, connected, hidden, currentStream, cameraRequests,
                  metadataPending, restartInit, isStreaming, frameInterval,
                  frameCount, lastFrameSentTime, currentAdaptiveFrameRate,
                  processingLatencies, frameDropCount, lastProcessedFrameTime,
                  processingFailsafeTimer, fallbackMode, decoding,
                  activeSinceSuccess, acceptedTotal, envEvents >>

\* toBlob yields no blob: nothing is sent
EncodeNull(i) ==
  /\ i \in DOMAIN encoding
  /\ encoding' = RemoveAt(encoding, i)
  /\ ev' = Event("no_blob")
  /\ UNCHANGED recording
  /\ UNCHANGED << now, settings, connected, hidden, currentStream, cameraRequests,
                  metadataPending, restartInit, isStreaming, frameInterval,
                  frameCount, pendingFrames, lastFrameSentTime,
                  currentAdaptiveFrameRate, processingLatencies, frameDropCount,
                  isFrameBeingProcessed, lastProcessedFrameTime,
                  processingTimeoutWarning, processingFailsafeTimer, fallbackMode,
                  inflight, decoding, activeSinceSuccess, acceptedTotal, envEvents >>


(***************************************************************************)
(* socket.on("processed_frame").  The server answers any frame in flight,  *)
(* in any order; keep = TRUE leaves the frame in flight, so that its       *)
(* result is delivered once more.                                          *)
(***************************************************************************)

Answered(i, keep, maxEnv) ==
  /\ connected
  /\ i \in DOMAIN inflight
  /\ IF keep
     THEN envEvents < maxEnv /\ envEvents' = envEvents + 1 /\ inflight' = inflight
     ELSE envEvents' = envEvents /\ inflight' = RemoveAt(inflight, i)

\* !data || !data.frame || data.frame.byteLength === 0: logged, return
ProcessedFrameEmpty(i, keep, maxEnv) ==
  /\ Answered(i, keep, maxEnv)
  /\ ev' = Event("result_empty")
  /\ UNCHANGED recording
  /\ UNCHANGED << now, settings, connected, hidden, currentStream, cameraRequests,
                  metadataPending, restartInit, isStreaming, frameInterval,
                  frameCount, pendingFrames, lastFrameSentTime,
                  currentAdaptiveFrameRate, processingLatencies, frameDropCount,
                  isFrameBeingProcessed, lastProcessedFrameTime,
                  processingTimeoutWarning, processingFailsafeTimer, fallbackMode,
                  encoding, decoding, activeSinceSuccess, acceptedTotal >>

\* a non-empty frame: createImageBitmap is started; echo = FALSE is a result
\* without data.timestamp
ProcessedFrame(i, echo, keep, maxEnv) ==
  /\ Answered(i, keep, maxEnv)
  /\ decoding' = Append(decoding, IF echo THEN inflight[i].timestamp ELSE 0)
  /\ ev' = Event("result")
  /\ UNCHANGED recording
  /\ UNCHANGED << now, settings, connected, hidden, currentStream, cameraRequests,
                  metadataPending, restartInit, isStreaming, frameInterval,
                  frameCount, pendingFrames, lastFrameSentTime,
                  currentAdaptiveFrameRate, processingLatencies, frameDropCount,
                  isFrameBeingProcessed, lastProcessedFrameTime,
                  processingTimeoutWarning, processingFailsafeTimer, fallbackMode,
                  encoding, activeSinceSuccess, acceptedTotal >>

\* createImageBitmap(...).then of the i-th pending decode
DecodeOk(i) ==
  /\ i \in DOMAIN decoding
  /\ decoding' = RemoveAt(decoding, i)
  /\ fallbackMode' = IF fallbackMode THEN disableFallbackMode(fallbackMode)
                     ELSE fallbackMode
  /\ setupProcessingFailsafe
  /\ lastProcessedFrameTime' = now
  /\ processingTimeoutWarning' = NoTimer
  /\ IF decoding[i] # 0
     THEN /\ processingLatencies' =
               PushLatency(processingLatencies, now - decoding[i])
          /\ currentAdaptiveFrameRate' =
               AdaptedRate(currentAdaptiveFrameRate, processingLatencies',
                           pendingFrames)
     ELSE UNCHANGED << processingLatencies, currentAdaptiveFrameRate >>
  /\ pendingFrames' = DecrementPending(pendingFrames)
  /\ isFrameBeingProcessed' = FALSE
  /\ activeSinceSuccess' = isStreaming
  /\ ev' = Event("decoded")
  /\ UNCHANGED recording
  /\ UNCHANGED << now, settings, connected, hidden, currentStream, cameraRequests,
                  metadataPending, restartInit, isStreaming, frameInterval,
                  frameCount, lastFrameSentTime, frameDropCount, encoding,
                  inflight, acceptedTotal, envEvents >>

\* createImageBitmap(...).catch of the i-th pending decode
DecodeFail(i) ==
  /\ i \in DOMAIN decoding
  /\ decoding' = RemoveAt(decoding, i)
  /\ pendingFrames' = DecrementPending(pendingFrames)
  /\ isFrameBeingProcessed' = FALSE
  /\ ev' = Event("decode_failed")
  /\ UNCHANGED recording
  /\ UNCHANGED << now, settings, connected, hidden, currentStream, cameraRequests,
                  metadataPending, restartInit, isStreaming, frameInterval,
                  frameCount, lastFrameSentTime, currentAdaptiveFrameRate,
                  processingLatencies, frameDropCount, lastProcessedFrameTime,
                  processingTimeoutWarning, processingFailsafeTimer, fallbackMode,
                  encoding, inflight, activeSinceSuccess, acceptedTotal, envEvents >>

(***************************************************************************)
(* Timeouts.                                                               *)
(***************************************************************************)

\* a timer variable holds a timeout that has not fired
Scheduled(timer) == timer >= 0

\* the callback of processingTimeoutWarning: status text only; the variable
\* keeps the handle
WarningFire ==
  /\ Scheduled(processingTimeoutWarning)
  /\ now >= processingTimeoutWarning
  /\ processingTimeoutWarning' = StaleTimer
  /\ ev' = Event("warning")
  /\ UNCHANGED recording
  /\ UNCHANGED << now, settings, connected, hidden, currentStream, cameraRequests,
                  metadataPending, restartInit, isStreaming, frameInterval,
                  frameCount, pendingFrames, lastFrameSentTime,
                  currentAdaptiveFrameRate, processingLatencies, frameDropCount,
                  isFrameBeingProcessed, lastProcessedFrameTime,
                  processingFailsafeTimer, fallbackMode, encoding, inflight,
                  decoding, activeSinceSuccess, acceptedTotal, envEvents >>

\* the callback of processingFailsafeTimer: nothing is rescheduled and the
\* variable keeps the handle
FailsafeFire ==
  /\ Scheduled(processingFailsafeTimer)
  /\ now >= processingFailsafeTimer
  /\ processingFailsafeTimer' = StaleTimer
  /\ fallbackMode' = IF FailsafeExpired THEN enableFallbackMode(fallbackMode)
                     ELSE fallbackMode
  /\ ev' = Event("failsafe")
  /\ UNCHANGED recording
  /\ UNCHANGED << now, settings, connected, hidden, currentStream, cameraRequests,
                  metadataPending, restartInit, isStreaming, frameInterval,
                  frameCount, pendingFrames, lastFrameSentTime,
                  currentAdaptiveFrameRate, processingLatencies, frameDropCount,
                  isFrameBeingProcessed, lastProcessedFrameTime,
                  processingTimeoutWarning, encoding, inflight, decoding,
                  activeSinceSuccess, acceptedTotal, envEvents >>

\* the setTimeout(initCamera, 500) of the restart-feed button
RestartInitFire(t) ==
  /\ t \in restartInit
  /\ now >= t
  /\ cameraRequests < MaxCameraRequests
  /\ restartInit' = restartInit \ {t}
  /\ initCamera
  /\ ev' = Event("restart_init")
  /\ UNCHANGED recording
  /\ UNCHANGED << now, settings, connected, hidden, currentStream, metadataPending,
                  isStreaming, frameInterval, frameCount, pendingFrames,
                  lastFrameSentTime, currentAdaptiveFrameRate, processingLatencies,
                  frameDropCount, isFrameBeingProcessed, lastProcessedFrameTime,
                  processingTimeoutWarning, processingFailsafeTimer, fallbackMode,
                  encoding, inflight, decoding, activeSinceSuccess, acceptedTotal,
                  envEvents >>


(***************************************************************************)
(* The transport.                                                          *)
(***************************************************************************)

\* socket.on("connect"): the counters are reset, the settings reloaded (the
\* settings page stores what it applies) and the camera initialised
Connect ==
  /\ ~connected
  /\ cameraRequests < MaxCameraRequests
  /\ connected' = TRUE
  /\ processingLatencies' = << >>
  /\ frameDropCount' = 0
  /\ pendingFrames' = 0
  /\ settings' = LoadedSettings(settings.frameRate)
  /\ initCamera
  /\ ev' = Event("connect")
  /\ UNCHANGED recording
  /\ UNCHANGED << now, hidden, currentStream, metadataPending, restartInit,
                  isStreaming, frameInterval, frameCount, lastFrameSentTime,
                  currentAdaptiveFrameRate, isFrameBeingProcessed,
                  lastProcessedFrameTime, processingTimeoutWarning,
                  processingFailsafeTimer, fallbackMode, encoding, inflight,
                  decoding, activeSinceSuccess, acceptedTotal, envEvents >>

\* socket.on("connect_error")
ConnectError(maxEnv) ==
  /\ ~connected
  /\ envEvents < maxEnv
  /\ envEvents' = envEvents + 1
  /\ stopFrameCapture
  /\ activeSinceSuccess' = FALSE
  /\ ev' = Event("connect_error")
  /\ UNCHANGED recording
  /\ UNCHANGED << now, settings, connected, hidden, currentStream, cameraRequests,
                  metadataPending, restartInit, frameCount, pendingFrames,
                  lastFrameSentTime, currentAdaptiveFrameRate, processingLatencies,
                  frameDropCount, isFrameBeingProcessed, lastProcessedFrameTime,
                  processingTimeoutWarning, processingFailsafeTimer, fallbackMode,
                  encoding, inflight, decoding, acceptedTotal >>

\* both socket.on("disconnect") handlers, in the order they were registered;
\* what was in flight is lost with the connection
Disconnect(maxEnv) ==
  /\ connected
  /\ envEvents < maxEnv
  /\ envEvents' = envEvents + 1
  /\ connected' = FALSE
  /\ inflight' = << >>
  /\ stopFrameCapture
  /\ setupProcessingFailsafe
  /\ activeSinceSuccess' = FALSE
  /\ ev' = Event("disconnect")
  /\ UNCHANGED recording
  /\ UNCHANGED << now, settings, hidden, currentStream, cameraRequests,
                  metadataPending, restartInit, frameCount, pendingFrames,
                  lastFrameSentTime, currentAdaptiveFrameRate, processingLatencies,
                  frameDropCount, isFrameBeingProcessed, lastProcessedFrameTime,
                  processingTimeoutWarning, fallbackMode, encoding, decoding,
                  acceptedTotal >>

(***************************************************************************)
(* The page and the user.                                                  *)
(***************************************************************************)

\* visibilitychange, document.hidden
Hidden(maxEnv) ==
  /\ ~hidden
  /\ envEvents < maxEnv
  /\ envEvents' = envEvents + 1
  /\ hidden' = TRUE
  /\ stopFrameCapture
  /\ activeSinceSuccess' = FALSE
  /\ ev' = Event("hidden")
  /\ UNCHANGED recording
  /\ UNCHANGED << now, settings, connected, currentStream, cameraRequests,
                  metadataPending, restartInit, frameCount, pendingFrames,
                  lastFrameSentTime, currentAdaptiveFrameRate, processingLatencies,
                  frameDropCount, isFrameBeingProcessed, lastProcessedFrameTime,
                  processingTimeoutWarning, processingFailsafeTimer, fallbackMode,
                  encoding, inflight, decoding, acceptedTotal >>

\* visibilitychange, the tab is shown again
Visible ==
  /\ hidden
  /\ hidden' = FALSE
  /\ IF currentStream /\ ~isStreaming
     THEN startFrameCapture
     ELSE UNCHANGED << isStreaming, frameInterval, pendingFrames,
                       lastFrameSentTime, currentAdaptiveFrameRate,
                       processingLatencies, frameDropCount >>
  /\ activeSinceSuccess' = (isStreaming /\ activeSinceSuccess)
  /\ ev' = Event("visible")
  /\ UNCHANGED recording
  /\ UNCHANGED << now, settings, connected, currentStream, cameraRequests,
                  metadataPending, restartInit, frameCount, isFrameBeingProcessed,
                  lastProcessedFrameTime, processingTimeoutWarning,
                  processingFailsafeTimer, fallbackMode, encoding, inflight,
                  decoding, acceptedTotal, envEvents >>

\* the click handler of the restart-feed button
RestartFeedClick(maxEnv) ==
  /\ envEvents < maxEnv
  /\ envEvents' = envEvents + 1
  /\ fallbackMode' = IF fallbackMode THEN disableFallbackMode(fallbackMode)
                     ELSE fallbackMode
  /\ processingFailsafeTimer' = NoTimer
  /\ processingTimeoutWarning' = NoTimer
  /\ frameCount' = 0
  /\ pendingFrames' = 0
  /\ lastProcessedFrameTime' = now
  /\ stopFrameCapture
  /\ restartInit' = restartInit \cup {now + RestartDelay}
  /\ activeSinceSuccess' = FALSE
  /\ ev' = Event("restart_feed")
  /\ UNCHANGED recording
  /\ UNCHANGED << now, settings, connected, hidden, currentStream, cameraRequests,
                  metadataPending, lastFrameSentTime, currentAdaptiveFrameRate,
                  processingLatencies, frameDropCount, isFrameBeingProcessed,
                  encoding, inflight, decoding, acceptedTotal >>

\* window.applySettings(newSettings), called by the settings page
ApplySettings(fr, maxEnv) ==
  /\ envEvents < maxEnv
  /\ envEvents' = envEvents + 1
  /\ settings' = AppliedSettings(fr)
  /\ IF currentStream
     THEN /\ cameraRequests < MaxCameraRequests
          /\ stopFrameCapture
          /\ initCamera
          /\ activeSinceSuccess' = FALSE
     ELSE UNCHANGED << isStreaming, frameInterval, cameraRequests,
                       activeSinceSuccess >>
  /\ ev' = Event("apply_settings")
  /\ UNCHANGED recording
  /\ UNCHANGED << now, connected, hidden, currentStream, metadataPending,
                  restartInit, frameCount, pendingFrames, lastFrameSentTime,
                  currentAdaptiveFrameRate, processingLatencies, frameDropCount,
                  isFrameBeingProcessed, lastProcessedFrameTime,
                  processingTimeoutWarning, processingFailsafeTimer, fallbackMode,
                  encoding, inflight, decoding, acceptedTotal >>

\* switchCamera; the button is shown once a camera is connected
SwitchCamera(maxEnv) ==
  /\ currentStream
  /\ envEvents < maxEnv
  /\ cameraRequests < MaxCameraRequests
  /\ envEvents' = envEvents + 1
  /\ stopFrameCapture
  /\ initCamera
  /\ activeSinceSuccess' = FALSE
  /\ ev' = Event("switch_camera")
  /\ UNCHANGED recording
  /\ UNCHANGED << now, settings, connected, hidden, currentStream, metadataPending,
                  restartInit, frameCount, pendingFrames, lastFrameSentTime,
                  currentAdaptiveFrameRate, processingLatencies, frameDropCount,
                  isFrameBeingProcessed, lastProcessedFrameTime,
                  processingTimeoutWarning, processingFailsafeTimer, fallbackMode,
                  encoding, inflight, decoding, acceptedTotal >>

(***************************************************************************)
(* Time.  The clock advances in steps; a timeout that is due fires before  *)
(* the clock passes it by more than one step (timeouts run late, never     *)
(* early), and an interval callback that became due during the step is     *)
(* due at its end.                                                         *)
(***************************************************************************)

NotOverdue(timer) == Scheduled(timer) => timer >= now

Advance(d, maxTime) ==
  /\ now + d <= maxTime
  /\ NotOverdue(processingFailsafeTimer)
  /\ NotOverdue(processingTimeoutWarning)
  /\ \A t \in restartInit : t >= now
  /\ now' = now + d
  /\ frameInterval' = IF frameInterval # NoTimer /\ frameInterval < now + d
                      THEN now + d
                      ELSE frameInterval
  /\ ev' = Event("advance")
  /\ UNCHANGED recording
  /\ UNCHANGED << settings, connected, hidden, currentStream, cameraRequests,
                  metadataPending, restartInit, isStreaming, frameCount,
                  pendingFrames, lastFrameSentTime, currentAdaptiveFrameRate,
                  processingLatencies, frameDropCount, isFrameBeingProcessed,
                  lastProcessedFrameTime, processingTimeoutWarning,
                  processingFailsafeTimer, fallbackMode, encoding, inflight,
                  decoding, activeSinceSuccess, acceptedTotal, envEvents >>

(***************************************************************************)
(* Spec: the frame accounting of the gate.  Capture ticks, emits, results  *)
(* of every kind (in any order, duplicated, late), connect resets and      *)
(* restart-feed clicks, over four instants of the clock.                  *)
(***************************************************************************)
Next ==
  \/ GetUserMediaOk
  \/ LoadedMetadata
  \/ TickSoftDrop
  \/ TickAccept(MaxFrames)
  \/ \E i \in 1..MaxFrames : EncodeDone(i)
  \/ \E i \in 1..MaxFrames, keep \in BOOLEAN :
       ProcessedFrameEmpty(i, keep, MaxEnvEvents)
  \/ \E i \in 1..MaxFrames, keep \in BOOLEAN :
       ProcessedFrame(i, TRUE, keep, MaxEnvEvents)
  \/ \E i \in 1..(MaxFrames + MaxEnvEvents) : DecodeOk(i)
  \/ \E i \in 1..(MaxFrames + MaxEnvEvents) : DecodeFail(i)
  \/ WarningFire
  \/ FailsafeFire
  \/ \E t \in restartInit : RestartInitFire(t)
  \/ Connect
  \/ Disconnect(MaxEnvEvents)
  \/ RestartFeedClick(MaxEnvEvents)
  \/ \E d \in TimeSteps : Advance(d, MaxTime)

Spec == Init /\ [][Next]_vars

(***************************************************************************)
(* SpecFailsafe: the failsafe monitor.  Every event of the page that       *)
(* starts or stops capture or touches the failsafe, over four instants of  *)
(* the clock (the failsafe timeout is two steps).                          *)
(***************************************************************************)
NextFailsafe ==
  \/ GetUserMediaOk
  \/ GetUserMediaFail
  \/ LoadedMetadata
  \/ TickNotReady
  \/ TickAccept(FailsafeMaxFrames)
  \/ \E i \in 1..FailsafeMaxFrames : EncodeDone(i)
  \/ \E i \in 1..FailsafeMaxFrames : EncodeNull(i)
  \/ \E i \in 1..FailsafeMaxFrames : ProcessedFrameEmpty(i, FALSE, 0)
  \/ \E i \in 1..FailsafeMaxFrames : ProcessedFrame(i, TRUE, FALSE, 0)
  \/ \E i \in 1..FailsafeMaxFrames : DecodeOk(i)
  \/ \E i \in 1..FailsafeMaxFrames : DecodeFail(i)
  \/ WarningFire
  \/ FailsafeFire
  \/ \E t \in restartInit : RestartInitFire(t)
  \/ Connect
  \/ ConnectError(FailsafeMaxEnvEvents)
  \/ Disconnect(FailsafeMaxEnvEvents)
  \/ Hidden(FailsafeMaxEnvEvents)
  \/ Visible
  \/ RestartFeedClick(FailsafeMaxEnvEvents)
  \/ \E fr \in SavedFrameRates : ApplySettings(fr, FailsafeMaxEnvEvents)
  \/ SwitchCamera(FailsafeMaxEnvEvents)
  \/ \E d \in TimeSteps : Advance(d, FailsafeMaxTime)

SpecFailsafe == InitFailsafe /\ [][NextFailsafe]_vars

(***************************************************************************)
(* Properties of the frame accounting, checked under Spec.                 *)
(***************************************************************************)

\* C1: pendingFrames is never negative, whatever the interleaving of ticks,
\* send completions, results (valid, undecodable, duplicated or late),
\* connect resets and restart-feed clicks; a result handled while
\* pendingFrames is 0 leaves it at 0.
C1_PendingNeverNegative ==
  /\ pendingFrames >= 0
  /\ (/\ ev.name \in {"result", "result_empty", "decoded", "decode_failed"}
      /\ ev.pending = 0) => pendingFrames = 0

\* a decoded result found pendingFrames at 0 (a duplicate, or one that
\* outlived a reset) and left it there
C1_ResultAtZero ==
  ev.name = "decoded" /\ ev.pending = 0 /\ pendingFrames = 0

\* C3: a processed_frame message whose payload is missing or empty still
\* decrements pendingFrames by one (floor 0) and clears the in-flight flag,
\* as a valid result does.
C3_EmptyResultDecrements ==
  ev.name = "result_empty" =>
    /\ pendingFrames = Max(0, ev.pending - 1)
    /\ ~isFrameBeingProcessed

\* C4: the send gate never wedges: while capture runs and the transport is
\* connected, it is never the case that nothing is in flight any more while
\* pendingFrames stays above 1 with the in-flight flag set, so that every
\* further tick is dropped until a restart, reconnect or visibility cycle.
C4_GateNeverWedged ==
  ~(/\ isStreaming /\ connected
    /\ isFrameBeingProcessed /\ pendingFrames > 1
    /\ encoding = << >> /\ inflight = << >> /\ decoding = << >>)

(***************************************************************************)
(* Properties of the failsafe monitor, checked under SpecFailsafe.         *)
(***************************************************************************)

\* C2: minFrameRate <= currentAdaptiveFrameRate <= maxFrameRate in every
\* reachable state, for every stored base frame rate, session start included.
C2_RateWithinBounds ==
  /\ Tenths(settings.minFrameRate) <= currentAdaptiveFrameRate
  /\ currentAdaptiveFrameRate <= Tenths(settings.maxFrameRate)

\* C5: when the session has stayed active since the last success and the
\* failsafe check runs 10 s or more after it, the state is Fallback from then
\* on; a success that arrives later returns the state to Normal at once.
C5_FallbackAtTimeout ==
  /\ (/\ ev.name = "failsafe"
      /\ activeSinceSuccess /\ isStreaming
      /\ now - lastProcessedFrameTime >= FailsafeTimeout) => fallbackMode
  /\ ev.name = "decoded" => ~fallbackMode

\* C6: the failsafe check reschedules itself: while capture is active and
\* the state is Normal a check is scheduled, and a check that fires before
\* more than 10 s have elapsed schedules the next one.
C6_CheckAlwaysScheduled ==
  /\ (isStreaming /\ ~fallbackMode) => Scheduled(processingFailsafeTimer)
  /\ (/\ ev.name = "failsafe"
      /\ ~(now - lastProcessedFrameTime > FailsafeTimeout))
       => Scheduled(processingFailsafeTimer)

\* C7: a successfully decoded result leaves the state Normal, also from
\* Fallback and however late it arrives, and its handler rearms the failsafe
\* timer for 10 s later.
C7_SuccessRestoresNormal ==
  ev.name = "decoded" =>
    /\ ~fallbackMode
    /\ processingFailsafeTimer = now + FailsafeTimeout

\* a decoded result found the state Fallback and left it Normal
C7_SuccessInFallback ==
  ev.name = "decoded" /\ ev.fallback /\ ~fallbackMode

\* C8 as stated: the failsafe state changes only by Normal -> Fallback when
\* more than 10 s have elapsed since the last success, and Fallback -> Normal
\* on a successful result; no other event changes it.
C8_OnlyTwoTransitions ==
  ev.fallback # fallbackMode =>
    \/ /\ fallbackMode
       /\ ev.name = "failsafe"
       /\ now - lastProcessedFrameTime > FailsafeTimeout
    \/ /\ ~fallbackMode
       /\ ev.name = "decoded"

\* C8 amended: Normal -> Fallback happens only in the failsafe callback, more
\* than 10 s after lastProcessedFrameTime; Fallback -> Normal happens only on
\* a successfully decoded result or on a restart-feed click; no other event
\* changes the failsafe state.
C8_TransitionsWithRestart ==
  ev.fallback # fallbackMode =>
    \/ /\ fallbackMode
       /\ ev.name = "failsafe"
       /\ now - lastProcessedFrameTime > FailsafeTimeout
    \/ /\ ~fallbackMode
       /\ ev.name \in {"decoded", "restart_feed"}

\* a restart-feed click found the state Fallback and left it Normal
C8_RestartLeavesFallback ==
  ev.name = "restart_feed" /\ ev.fallback /\ ~fallbackMode

\* C9: when capture stops because the tab is hidden the failsafe timer is
\* cancelled, and the state never goes Normal -> Fallback while no capture
\* loop is running.
C9_TimerCancelledOnStop ==
  /\ ev.name = "hidden" => ~Scheduled(processingFailsafeTimer)
  /\ (ev.name = "failsafe" /\ ~ev.fallback /\ fallbackMode) => isStreaming

\* C10: after every call of startFrameCapture that starts the loop (camera
\* start, camera switch, settings change, reconnect, the tab shown again) a
\* failsafe timer is pending.
C10_StartArmsFailsafe ==
  (~ev.streaming /\ isStreaming) => Scheduled(processingFailsafeTimer)

(***************************************************************************)
(* Properties of the page lifecycle, checked under SpecFailsafe.           *)
(***************************************************************************)

\* the capture loop stops, the tab is hidden, or the transport disconnects
SessionEnds ==
  \/ isStreaming /\ ~isStreaming'
  \/ ~hidden /\ hidden'
  \/ connected /\ ~connected'

\* the callback of the stall warning or of the failsafe timer runs
TimeoutRuns ==
  \/ Scheduled(processingTimeoutWarning) /\ processingTimeoutWarning' = StaleTimer
  \/ Scheduled(processingFailsafeTimer) /\ processingFailsafeTimer' = StaleTimer

\* C11: once a session stop, a tab-hidden event or a disconnect has been
\* handled, none of the capture interval, the stall warning and the failsafe
\* timeout is still scheduled, and no timeout callback runs while no capture
\* loop is running.
C11_TimersCancelledOnEnd ==
  [][/\ SessionEnds =>
          /\ frameInterval' = NoTimer
          /\ ~Scheduled(processingTimeoutWarning')
          /\ ~Scheduled(processingFailsafeTimer')
     /\ TimeoutRuns => isStreaming]_vars

\* C12: right after a disconnect has been handled pendingFrames is 0, the
\* in-flight flag is false, frameDropCount is 0, the latency window is empty
\* and the capture loop is paused.
C12_DisconnectResets ==
  [][(connected /\ ~connected') =>
        /\ pendingFrames' = 0
        /\ ~isFrameBeingProcessed'
        /\ frameDropCount' = 0
        /\ processingLatencies' = << >>
        /\ ~isStreaming'
        /\ frameInterval' = NoTimer]_vars

(***************************************************************************)
(* Reconnection.  The page with a working camera and no user at the        *)
(* controls: the transport drops and comes back, the browser delivers the  *)
(* camera stream and the metadata event of every initCamera call.          *)
(***************************************************************************)
ReconnectMaxTime == 35000      \* SpecReconnect: the clock stops here
ReconnectMaxFrames == 1        \* SpecReconnect: ticks accepted in one run
ReconnectMaxDisconnects == 1   \* SpecReconnect: disconnects in one run

NextReconnect ==
  \/ GetUserMediaOk
  \/ LoadedMetadata
  \/ TickAccept(ReconnectMaxFrames)
  \/ \E i \in 1..ReconnectMaxFrames : EncodeDone(i)
  \/ \E i \in 1..ReconnectMaxFrames : ProcessedFrame(i, TRUE, FALSE, 0)
  \/ \E i \in 1..ReconnectMaxFrames : DecodeOk(i)
  \/ WarningFire
  \/ FailsafeFire
  \/ Connect
  \/ Disconnect(ReconnectMaxDisconnects)
  \/ \E d \in TimeSteps : Advance(d, ReconnectMaxTime)

SpecReconnect ==
  /\ Init
  /\ [][NextReconnect]_vars
  /\ WF_vars(GetUserMediaOk)
  /\ WF_vars(LoadedMetadata)

AwaitingResult(sent, received) == Len(sent) + Len(received)

\* a step that resets nothing: no connect, disconnect, capture start or
\* stop, restart-feed click, and no result delivered twice
NoReset ==
  /\ envEvents' = 0
  /\ connected' = connected
  /\ isStreaming' = isStreaming

\* C14: pendingFrames counts the frames handed to the transport since the
\* last reset whose result has not been received: between resets it goes up
\* by one with every send and down by one with every result, and never moves
\* otherwise.
C14_PendingCountsUnanswered ==
  [][NoReset =>
       pendingFrames' - pendingFrames =
         AwaitingResult(inflight', decoding') - AwaitingResult(inflight, decoding)]_vars

\* C15: the in-flight flag is true exactly while a sent frame awaits its
\* result: in every reachable state the flag is set iff pendingFrames > 0.
C15_FlagIffPending ==
  isFrameBeingProcessed <=> pendingFrames > 0

(***************************************************************************)
(* The transmission gate.  The page with the video ready, on a 100 ms      *)
(* clock, for the first second of a session: ticks come faster than the    *)
(* frame rate allows, the canvas encoder may lag behind them, and the      *)
(* server has not answered yet.                                            *)
(***************************************************************************)
GateMaxTime == 21000       \* SpecGate: the clock stops here
GateMaxFrames == 4         \* SpecGate: ticks accepted in one run
GateTimeSteps == {PollInterval}

NextGate ==
  \/ GetUserMediaOk
  \/ LoadedMetadata
  \/ TickTooSoon
  \/ TickHardDrop
  \/ TickSoftDrop
  \/ TickAccept(GateMaxFrames)
  \/ \E i \in 1..GateMaxFrames : EncodeDone(i)
  \/ Connect
  \/ \E d \in GateTimeSteps : Advance(d, GateMaxTime)

SpecGate == Init /\ [][NextGate]_vars

\* a step of the interval callback, taken with the video ready
TickRuns ==
  /\ IntervalDue
  /\ now' = now
  /\ frameInterval' = now + PollInterval

\* C16: a tick that passes the pacing check with pendingFrames > 3 drops the
\* frame: frameDropCount goes up by exactly 1, pendingFrames is unchanged,
\* and nothing is encoded or handed to the transport.
C16_HardDropEffect ==
  [][(TickRuns /\ ~TooSoon /\ pendingFrames > 3) =>
        /\ frameDropCount' = frameDropCount + 1
        /\ pendingFrames' = pendingFrames
        /\ frameCount' = frameCount
        /\ encoding' = encoding
        /\ inflight' = inflight]_vars

\* a frame has been dropped with four frames pending: the rate is below the
\* base although no latency has been measured yet
C16_DroppedAtFour ==
  /\ pendingFrames = 4
  /\ frameDropCount = 1
  /\ processingLatencies = << >>
  /\ currentAdaptiveFrameRate < Tenths(settings.frameRate)

(***************************************************************************)
(* The rate adaptation of the processed_frame handler.  Its inputs are     *)
(* drawn from small sets: a running, connected session with some latency   *)
(* samples in the window, some rate the controller can have reached, and   *)
(* frames in flight that were sent so long ago that their results, handled *)
(* now, measure the drawn latencies.  The results are answered in the      *)
(* order sent; pendingFrames may have been reset since they were sent.     *)
(***************************************************************************)
RateMaxWindow == 4         \* SpecRate: latency samples in the window at the start
RateMaxResults == 2        \* SpecRate: frames in flight at the start

RateLatencies == {250, 450, 2500}
RateInputs == {Tenths(2), Tenths(5), Tenths(10) - 2}
RateInitTime == PageLoadTime + FailsafeTimeout

SeqsUpTo(S, n) == UNION {[1..k -> S] : k \in 0..n}

InitRate ==
  \E fr \in SavedFrameRates,
     window \in SeqsUpTo(RateLatencies, RateMaxWindow),
     sent \in SeqsUpTo(RateLatencies, RateMaxResults),
     reset \in BOOLEAN :
    \E rate \in RateInputs \cup {Tenths(fr)} :
      /\ now = RateInitTime
      /\ settings = LoadedSettings(fr)
      /\ connected = TRUE
      /\ hidden = FALSE
      /\ currentStream = TRUE
      /\ cameraRequests = 0
      /\ metadataPending = FALSE
      /\ restartInit = {}
      /\ isStreaming = TRUE
      /\ frameInterval = now + PollInterval
      /\ frameCount = Len(sent)
      /\ pendingFrames = IF reset THEN 0 ELSE Len(sent)
      /\ lastFrameSentTime = now
      /\ currentAdaptiveFrameRate = rate
      /\ processingLatencies = window
      /\ frameDropCount = 0
      /\ isFrameBeingProcessed = (sent # << >>)
      /\ lastProcessedFrameTime = now
      /\ processingTimeoutWarning = NoTimer
      /\ processingFailsafeTimer = now + FailsafeTimeout
      /\ fallbackMode = FALSE
      /\ encoding = << >>
      /\ inflight = [i \in 1..Len(sent) |->
                       [timestamp |-> now - sent[i], frameId |-> i, quality |-> 80]]
      /\ decoding = << >>
      /\ ev = [name |-> "other", pending |-> pendingFrames, fallback |-> FALSE,
               streaming |-> TRUE]
      /\ activeSinceSuccess = TRUE
      /\ acceptedTotal = Len(sent)
      /\ envEvents = 0
      /\ isRecording = FALSE
      /\ recordingStartTime = 0
      /\ recordingFetches = << >>
      /\ recordingBtnDisabled = FALSE

NextRate ==
  \/ ProcessedFrame(1, TRUE, FALSE, 0)
  \/ DecodeOk(1)
  \/ DecodeFail(1)

SpecRate == InitRate /\ [][NextRate]_vars

\* a decoded result with a timestamp has pushed its latency sample (the
\* window stays below its capacity here) with adaptive mode on
SampleEvaluated ==
  /\ ev'.name = "decoded"
  /\ Len(processingLatencies') = Len(processingLatencies) + 1
  /\ settings.adaptiveFrameRate

\* the last k entries of a window are all below limit
RecentBelow(lats, k, limit) ==
  /\ Len(lats) >= k
  /\ \A j \in (Len(lats) - k + 1)..Len(lats) : lats[j] < limit

C18_RecoveryAddsThreeTenths ==
  [][(/\ SampleEvaluated
      /\ currentAdaptiveFrameRate = Tenths(2)
      /\ settings.frameRate > 2
      /\ RecentBelow(processingLatencies', 5, 400)
      /\ pendingFrames' = 0)
       => currentAdaptiveFrameRate' = currentAdaptiveFrameRate + 3]_vars

\* C19: the recovery nudge is applied exactly when the five most recent
\* latencies are all below 500 ms and no frame is pending after this result
\* is accounted for; it adds 0.3 on top of the band adjustment, capped so
\* that it never takes the rate above the base rate.
C19_NudgeAfterAccounting ==
  [][SampleEvaluated =>
       LET lats == processingLatencies'
           banded == IF Len(lats) >= 3
                     THEN BandRate(currentAdaptiveFrameRate, lats)
                     ELSE currentAdaptiveFrameRate
           due == RecentBelow(lats, 5, 500) /\ pendingFrames' = 0
       IN currentAdaptiveFrameRate' =
            IF due THEN Max(banded, Min(Tenths(settings.frameRate), banded + 3))
            ELSE banded]_vars

\* C20: after each sample with at least 3 entries in the window (never with
\* fewer) one band is chosen by the window average: above 2000 ms -1.0,
\* above 1000 ms -0.5, below 300 ms +0.5, below 500 ms +0.2, otherwise no
\* change; an adjusted rate is clamped to [min, max].  The recovery nudge
\* of at most 0.3 may follow in the same evaluation.
C20_OneBandClamped ==
  [][SampleEvaluated =>
       LET lats == processingLatencies'
           n == Len(lats)
           sum == Sum(lats)
           lo == Tenths(settings.minFrameRate)
           hi == Tenths(settings.maxFrameRate)
           delta == IF n < 3 THEN 0
                    ELSE IF sum > 2000 * n THEN -10
                    ELSE IF sum > 1000 * n THEN -5
                    ELSE IF sum < 300 * n THEN 5
                    ELSE IF sum < 500 * n THEN 2
                    ELSE 0
           banded == IF delta = 0 THEN currentAdaptiveFrameRate
                     ELSE Max(lo, Min(hi, currentAdaptiveFrameRate + delta))
       IN /\ n < 3 => currentAdaptiveFrameRate' = currentAdaptiveFrameRate
          /\ currentAdaptiveFrameRate' - banded \in 0..3]_vars

(***************************************************************************)
(* SpecPacing: the pacing of the capture loop on the 100 ms clock of the   *)
(* poll, in the first second of a session, with the settings page applying *)
(* settings (adaptive mode off, capture restarted).  The server has not    *)
(* answered yet.                                                           *)
(***************************************************************************)
PacingMaxTime == 21000     \* SpecPacing: the clock stops here
PacingMaxFrames == 4       \* SpecPacing: ticks accepted in one run
PacingMaxEnvEvents == 1    \* SpecPacing: settings applied in one run

NextPacing ==
  \/ GetUserMediaOk
  \/ LoadedMetadata
  \/ TickTooSoon
  \/ TickHardDrop
  \/ TickSoftDrop
  \/ TickAccept(PacingMaxFrames)
  \/ \E i \in 1..PacingMaxFrames : EncodeDone(i)
  \/ \E fr \in SavedFrameRates : ApplySettings(fr, PacingMaxEnvEvents)
  \/ \E d \in GateTimeSteps : Advance(d, PacingMaxTime)

SpecPacing == InitFailsafe /\ [][NextPacing]_vars

\* a tick of the capture loop that finds less than 1000 / effectiveRate ms
\* elapsed since lastFrameSentTime
PacingFails ==
  /\ TickRuns
  /\ (now - lastFrameSentTime) * GetEffectiveFrameRate < Tenths(1000)

\* a tick accepts a frame
FrameAccepted == acceptedTotal' = acceptedTotal + 1

\* the tick of PacingFails changes no state of the controller and sends nothing
PacingNoOp ==
  UNCHANGED << frameCount, pendingFrames, lastFrameSentTime,
               currentAdaptiveFrameRate, processingLatencies, frameDropCount,
               isFrameBeingProcessed, encoding, inflight, acceptedTotal >>

\* C21 as stated: a tick that fails the pacing check changes no state and
\* sends nothing, and any two consecutively accepted frames are at least
\* 1000 / effectiveRate ms apart (the earlier of two frames cannot have been
\* accepted before the page was loaded).
C21_AcceptedFramesApart ==
  [][/\ PacingFails => PacingNoOp
     /\ (FrameAccepted /\ acceptedTotal >= 1) =>
          (now - PageLoadTime) * GetEffectiveFrameRate >= Tenths(1000)]_vars

\* C21 amended: a tick that fails the pacing check changes no state and
\* sends nothing; lastFrameSentTime is the time of the last frame accepted
\* in this run of the capture loop (0 when the loop has just been started),
\* so two frames accepted consecutively in one run are at least
\* 1000 / effectiveRate ms apart.
C21_PacedWithinRun ==
  [][/\ PacingFails => PacingNoOp
     /\ FrameAccepted =>
          /\ (now - lastFrameSentTime) * GetEffectiveFrameRate >= Tenths(1000)
          /\ lastFrameSentTime' = now
     /\ lastFrameSentTime' # lastFrameSentTime =>
          \/ FrameAccepted
          \/ ~isStreaming /\ isStreaming' /\ lastFrameSentTime' = 0]_vars

\* the second frame of a run of the capture loop has just been accepted
C21_SecondFrameOfRun ==
  /\ isStreaming
  /\ envEvents = 0
  /\ isRecording = FALSE
  /\ recordingStartTime = 0
  /\ recordingFetches = << >>
  /\ recordingBtnDisabled = FALSE
  /\ acceptedTotal = 2
  /\ lastFrameSentTime = now

\* a tick of the capture loop that passes the pacing check
PacingPasses ==
  /\ TickRuns
  /\ (now - lastFrameSentTime) * GetEffectiveFrameRate >= Tenths(1000)

\* C22: every tick that passes the pacing check sets lastFrameSentTime to
\* the time of the tick, also when the gate then drops the frame, so that
\* drops and the rate penalty of a hard drop come at most once per
\* 1000 / effectiveRate ms and not once per poll.
C22_DropsUpdateTimestamp ==
  [][PacingPasses => lastFrameSentTime' = now]_vars

C24_SoftDropEffect ==
  [][(PacingPasses /\ pendingFrames <= 3 /\ isFrameBeingProcessed
        /\ pendingFrames > 1) =>
       /\ frameDropCount' = frameDropCount + 1
       /\ UNCHANGED << frameCount, encoding, inflight, acceptedTotal,
                       currentAdaptiveFrameRate, pendingFrames >>]_vars

\* frames have been dropped in this run with no more than 3 pending: the
\* rate is still the one the run started with
C24_SoftDropped ==
  /\ isStreaming
  /\ isFrameBeingProcessed
  /\ pendingFrames \in {2, 3}
  /\ frameDropCount >= 1
  /\ currentAdaptiveFrameRate = Tenths(settings.frameRate)

\* C25: every frame handed to the transport carries a sequence id strictly
\* greater than the id of every frame sent before it, whatever the order in
\* which the encode and read callbacks complete (while no result has been
\* received, inflight holds the frames in the order they were sent).
C25_SequenceIdsIncrease ==
  \A i, j \in DOMAIN inflight : i < j => inflight[i].frameId < inflight[j].frameId

(***************************************************************************)
(* SpecQuality: the quality of an accepted frame.  The inputs of the       *)
(* computation are drawn from small sets: a running session with the       *)
(* stored or the applied settings, some frames pending, the in-flight flag *)
(* set or cleared, and some latency samples in the window; the next tick   *)
(* of the capture loop is due.                                             *)
(***************************************************************************)
QualityMaxWindow == 2      \* SpecQuality: latency samples in the window at the start
QualityMaxFrames == 1      \* SpecQuality: ticks accepted in one run

QualityInputs == {20, 50, 80}

InitQuality ==
  \E base \in {LoadedSettings(5), AppliedSettings(5)},
     quality \in QualityInputs,
     window \in SeqsUpTo(RateLatencies, QualityMaxWindow),
     pending \in 0..DropThreshold,
     flag \in BOOLEAN :
    /\ now = RateInitTime
    /\ settings = [base EXCEPT !.videoQuality = quality]
    /\ connected = TRUE
    /\ hidden = FALSE
    /\ currentStream = TRUE
    /\ cameraRequests = 0
    /\ metadataPending = FALSE
    /\ restartInit = {}
    /\ isStreaming = TRUE
    /\ frameInterval = now
    /\ frameCount = pending
    /\ pendingFrames = pending
    /\ lastFrameSentTime = now - 1000
    /\ currentAdaptiveFrameRate = Tenths(5)
    /\ processingLatencies = window
    /\ frameDropCount = 0
    /\ isFrameBeingProcessed = flag
    /\ lastProcessedFrameTime = now
    /\ processingTimeoutWarning = NoTimer
    /\ processingFailsafeTimer = now + FailsafeTimeout
    /\ fallbackMode = FALSE
    /\ encoding = << >>
    /\ inflight = << >>
    /\ decoding = << >>
    /\ ev = [name |-> "other", pending |-> pending, fallback |-> FALSE,
             streaming |-> TRUE]
    /\ activeSinceSuccess = TRUE
    /\ acceptedTotal = 0
    /\ envEvents = 0
    /\ isRecording = FALSE
    /\ recordingStartTime = 0
    /\ recordingFetches = << >>
    /\ recordingBtnDisabled = FALSE

NextQuality ==
  \/ TickSoftDrop
  \/ TickAccept(QualityMaxFrames)
  \/ \E i \in 1..QualityMaxFrames : EncodeDone(i)

SpecQuality == InitQuality /\ [][NextQuality]_vars

\* C26 as stated: the quality of an accepted frame follows from the state at the tick
\* by the first matching rule only: pendingFrames > 2 gives
\* max(0.3, base - 0.3); else pendingFrames > 1 gives max(0.5, base - 0.2);
\* else a window average above 1000 ms gives max(0.4, base - 0.2); else
\* base.  An empty window is no latency pressure.
C26_FirstMatchingRule ==
  [][FrameAccepted =>
       LET base == settings.videoQuality
           n == Len(processingLatencies)
       IN encoding'[Len(encoding')] =
            IF pendingFrames > 2 THEN Max(30, base - 30)
            ELSE IF pendingFrames > 1 THEN Max(50, base - 20)
            ELSE IF n > 0 /\ Sum(processingLatencies) > 1000 * n
                 THEN Max(40, base - 20)
            ELSE base]_vars

\* C26 amended: with adaptive mode on, the quality of an accepted frame
\* follows from the state at the tick by the first matching rule only:
\* pendingFrames > 2 gives max(0.3, base - 0.3); else pendingFrames > 1 gives
\* max(0.5, base - 0.2); else a non-empty window with an average above
\* 1000 ms gives max(0.4, base - 0.2); else base.  With adaptive mode off the
\* quality is base.
C26_FirstRuleWhenAdaptive ==
  [][FrameAccepted =>
       LET base == settings.videoQuality
           n == Len(processingLatencies)
       IN encoding'[Len(encoding')] =
            IF ~settings.adaptiveFrameRate THEN base
            ELSE IF pendingFrames > 2 THEN Max(30, base - 30)
            ELSE IF pendingFrames > 1 THEN Max(50, base - 20)
            ELSE IF n > 0 /\ Sum(processingLatencies) > 1000 * n
                 THEN Max(40, base - 20)
            ELSE base]_vars

\* a frame accepted with 2 frames pending and a window average above
\* 1000 ms: the pending-frame rule has given 0.5, not the 0.4 of the
\* latency rule
C26_PendingRuleWins ==
  /\ settings.adaptiveFrameRate
  /\ settings.videoQuality = 50
  /\ pendingFrames = 2
  /\ processingLatencies # << >>
  /\ Sum(processingLatencies) > 1000 * Len(processingLatencies)
  /\ acceptedTotal = 1
  /\ encoding = << 50 >>

(***************************************************************************)
(* SpecWindow: the latency window at its capacity.  The window starts      *)
(* full, or short of full by less than the number of results about to      *)
(* arrive; the results are answered in the order sent.                     *)
(***************************************************************************)
WindowMaxResults == 2      \* SpecWindow: frames in flight at the start

WindowLatencies == {250, 2500}

InitWindow ==
  \E len \in (LatencyCapacity - WindowMaxResults + 1)..LatencyCapacity,
     sent \in SeqsUpTo(RateLatencies, WindowMaxResults) :
    \E window \in [1..len -> WindowLatencies] :
      /\ now = RateInitTime
      /\ settings = LoadedSettings(5)
      /\ connected = TRUE
      /\ hidden = FALSE
      /\ currentStream = TRUE
      /\ cameraRequests = 0
      /\ metadataPending = FALSE
      /\ restartInit = {}
      /\ isStreaming = TRUE
      /\ frameInterval = now + PollInterval
      /\ frameCount = Len(sent)
      /\ pendingFrames = Len(sent)
      /\ lastFrameSentTime = now
      /\ currentAdaptiveFrameRate = Tenths(5)
      /\ processingLatencies = window
      /\ frameDropCount = 0
      /\ isFrameBeingProcessed = (sent # << >>)
      /\ lastProcessedFrameTime = now
      /\ processingTimeoutWarning = NoTimer
      /\ processingFailsafeTimer = now + FailsafeTimeout
      /\ fallbackMode = FALSE
      /\ encoding = << >>
      /\ inflight = [i \in 1..Len(sent) |->
                       [timestamp |-> now - sent[i], frameId |-> i, quality |-> 80]]
      /\ decoding = << >>
      /\ ev = [name |-> "other", pending |-> pendingFrames, fallback |-> FALSE,
               streaming |-> TRUE]
      /\ activeSinceSuccess = TRUE
      /\ acceptedTotal = Len(sent)
      /\ envEvents = 0
      /\ isRecording = FALSE
      /\ recordingStartTime = 0
      /\ recordingFetches = << >>
      /\ recordingBtnDisabled = FALSE

SpecWindow == InitWindow /\ [][NextRate]_vars

\* the most recent samples, at most 10, of a sequence of samples in arrival
\* order
MostRecent(samples) ==
  IF Len(samples) > 10
  THEN SubSeq(samples, Len(samples) - 9, Len(samples))
  ELSE samples

\* C27: the latency window never holds more than 10 entries; when an 11th
\* sample is recorded the oldest one is evicted, so that the window is
\* always the most recent (at most 10) samples in arrival order.
C27_WindowKeepsLastTen ==
  /\ Len(processingLatencies) <= 10
  /\ [][/\ Len(processingLatencies') <= 10
        /\ ev'.name = "decoded" =>
             \E i \in DOMAIN decoding :
               /\ decoding' = RemoveAt(decoding, i)
               /\ processingLatencies' =
                    IF decoding[i] = 0 THEN processingLatencies
                    ELSE MostRecent(Append(processingLatencies, now - decoding[i]))
        /\ ev'.name # "decoded" => processingLatencies' = processingLatencies]_vars

\* two samples of 450 ms have been recorded into a window that had room for
\* one at most: the window holds 10 samples, the two new ones last
C27_OldestEvicted ==
  /\ ev.name = "decoded"
  /\ Len(processingLatencies) = 10
  /\ processingLatencies[9] = 450
  /\ processingLatencies[10] = 450

(***************************************************************************)
(* Properties of results, the stall warning and the stopping of the loop.  *)
(***************************************************************************)

\* C28: results may arrive in any order relative to sends: each received
\* result decrements pendingFrames by exactly one (floor 0), whichever frame
\* in flight it answers (a non-empty result when its decode has finished),
\* and no interleaving decrements twice for one result or skips a decrement.
C28_OneDecrementPerResult ==
  [][/\ ev'.name \in {"result_empty", "decoded", "decode_failed"} =>
          pendingFrames' = Max(0, pendingFrames - 1)
     /\ ev'.name = "result" => pendingFrames' = pendingFrames]_vars

\* a frame is handed to the transport
FrameSent == Len(inflight') = Len(inflight) + 1

\* C29: when a frame is sent and no stall timer is scheduled, one is
\* scheduled for 5 s later, also after an earlier warning has fired; a
\* result cancels the scheduled timer, and a scheduled timer is not replaced
\* by another send.
C29_StallTimerRearmed ==
  [][/\ (FrameSent /\ ~Scheduled(processingTimeoutWarning)) =>
          processingTimeoutWarning' = now + WarningTimeout
     /\ (FrameSent /\ Scheduled(processingTimeoutWarning)) =>
          processingTimeoutWarning' = processingTimeoutWarning
     /\ ev'.name = "decoded" => ~Scheduled(processingTimeoutWarning')]_vars

(***************************************************************************)
(* SpecStop: the handlers that start and stop the capture loop, two user   *)
(* or transport events in a run, so that the loop is stopped when it is    *)
(* already stopped.  No frame is captured.                                 *)
(***************************************************************************)
StopMaxTime == 25000       \* SpecStop: the clock stops here
StopMaxEnvEvents == 2      \* SpecStop: user and transport events in one run

NextStop ==
  \/ GetUserMediaOk
  \/ LoadedMetadata
  \/ \E t \in restartInit : RestartInitFire(t)
  \/ Connect
  \/ Disconnect(StopMaxEnvEvents)
  \/ Hidden(StopMaxEnvEvents)
  \/ Visible
  \/ RestartFeedClick(StopMaxEnvEvents)
  \/ \E d \in TimeSteps : Advance(d, StopMaxTime)

SpecStop == Init /\ [][NextStop]_vars

\* a handler that calls stopFrameCapture: the tab is hidden, the transport
\* disconnects, or the restart-feed button is clicked
StopCalled ==
  \/ ~hidden /\ hidden'
  \/ connected /\ ~connected'
  \/ ev'.name = "restart_feed"

\* C30: stopping the capture loop is idempotent: a call when already
\* stopped changes nothing of the loop, and after any call, a repeated one
\* included, there is no interval timer and isStreaming is false.
C30_StopIdempotent ==
  [][StopCalled =>
       /\ ~isStreaming' /\ frameInterval' = NoTimer
       /\ (~isStreaming /\ frameInterval = NoTimer) =>
            UNCHANGED << isStreaming, frameInterval >>]_vars

\* the loop had been started and stopped, and the tab has then been hidden
\* with the loop still stopped: a second stop in a row
C30_StoppedAgain ==
  /\ ev.name = "hidden"
  /\ ~ev.streaming
  /\ envEvents = 2
  /\ cameraRequests = 0 /\ ~metadataPending /\ restartInit = {}
  /\ ~isStreaming
  /\ frameInterval = NoTimer

(***************************************************************************)
(* Properties of the counters, the camera and the lifecycle.               *)
(***************************************************************************)

\* a tick that passes the pacing check and is dropped by one of the two
\* drop rules
TickDrops ==
  /\ PacingPasses
  /\ \/ pendingFrames > 3
     \/ isFrameBeingProcessed /\ pendingFrames > 1

\* C31: frameDropCount never decreases while a session runs: it changes
\* only by +1, on a dropped tick, and is set back to 0 only when a session
\* starts or the transport connects.
C31_DropCountMonotone ==
  [][/\ TickDrops => frameDropCount' = frameDropCount + 1
     /\ frameDropCount' # frameDropCount =>
          \/ TickDrops
          \/ /\ frameDropCount' = 0
             /\ \/ ~isStreaming /\ isStreaming'
                \/ ~connected /\ connected']_vars

\* the transport has connected in a running session and set the count of
\* the drops back to 0; the frames dropped were sent, and stay in flight
C31_ResetOnConnect ==
  /\ connected
  /\ isStreaming
  /\ frameDropCount = 0
  /\ Len(inflight) = 4
  /\ currentAdaptiveFrameRate < Tenths(settings.frameRate)

\* the camera request has failed: there is no stream, no request is
\* pending and none is scheduled
CameraFailed ==
  /\ ~currentStream
  /\ cameraRequests = 0
  /\ restartInit = {}

\* C33: a device error is terminal for the session: after the camera
\* request has failed, no event requests the stream again (a transport
\* reconnect included), starts the capture loop or arms the failsafe timer;
\* only an explicit user action leads to a new request (the restart-feed
\* click schedules one).
C33_CameraErrorTerminal ==
  [][CameraFailed =>
       /\ cameraRequests' = 0
       /\ ~isStreaming'
       /\ ~Scheduled(processingFailsafeTimer')]_vars

(***************************************************************************)
(* SpecBurst: the capture loop at the base rate of 5 fps, one tick per     *)
(* send interval, with encodes that take longer than several intervals.    *)
(* The server has not answered yet.                                        *)
(***************************************************************************)
BurstMaxTime == 21400      \* SpecBurst: the clock stops here
BurstMaxFrames == 5        \* SpecBurst: ticks accepted in one run
BurstTimeSteps == {2 * PollInterval}

NextBurst ==
  \/ GetUserMediaOk
  \/ LoadedMetadata
  \/ TickHardDrop
  \/ TickSoftDrop
  \/ TickAccept(BurstMaxFrames)
  \/ \E i \in 1..BurstMaxFrames : EncodeDone(i)
  \/ \E d \in BurstTimeSteps : Advance(d, BurstMaxTime)

SpecBurst == Init /\ [][NextBurst]_vars

\* C34: pendingFrames never exceeds dropThreshold + 1 = 4, although the
\* increment is made in the encode and read callbacks, after the tick that
\* accepted the frame.
C34_PendingAtMostFour ==
  pendingFrames <= DropThreshold + 1

\* C35: no frame is sent while the capture loop is stopped or the socket is
\* disconnected, and the capture loop is never started while the socket is
\* disconnected.
C35_NoSendWhileStopped ==
  [][/\ FrameSent => isStreaming /\ connected
     /\ (~isStreaming /\ isStreaming') => connected']_vars

\* C36: isStreaming is true exactly when the capture interval timer is set,
\* so a timer is only ever created while none exists.
C36_StreamingIffTimer ==
  isStreaming <=> frameInterval # NoTimer

\* the tab is hidden while the loop runs and a second initialisation of the
\* camera is about to call startFrameCapture: the loop is stopped, its timer
\* cleared
C36_StoppedWhileInitPending ==
  /\ ev.name = "hidden" /\ ev.streaming
  /\ ~isStreaming /\ frameInterval = NoTimer
  /\ metadataPending /\ connected

\* C37: the quality sent with an accepted frame never exceeds the configured
\* base quality and lies in [0, 1] (0..100 percent), whatever the base
\* quality, the pending count and the latency average.
C37_QualityAtMostBase ==
  [][FrameAccepted =>
       /\ encoding'[Len(encoding')] <= settings.videoQuality
       /\ encoding'[Len(encoding')] \in 0..100]_vars

(***************************************************************************)
(* SpecFixed: a session started by window.applySettings, so with adaptive  *)
(* mode off.  Frames are in flight, a tick of the capture loop is due, and *)
(* the results of the frames in flight arrive.                             *)
(***************************************************************************)
FixedMaxWindow == 2        \* SpecFixed: latency samples in the window at the start
FixedMaxResults == 4       \* SpecFixed: frames in flight at the start
FixedMaxFrames == 1        \* SpecFixed: ticks accepted in one run

InitFixed ==
  \E fr \in SavedFrameRates,
     window \in SeqsUpTo(WindowLatencies, FixedMaxWindow),
     sent \in SeqsUpTo(WindowLatencies, FixedMaxResults),
     elapsed \in {0, 1000} :
    /\ now = RateInitTime
    /\ settings = AppliedSettings(fr)
    /\ connected = TRUE
    /\ hidden = FALSE
    /\ currentStream = TRUE
    /\ cameraRequests = 0
    /\ metadataPending = FALSE
    /\ restartInit = {}
    /\ isStreaming = TRUE
    /\ frameInterval = now
    /\ frameCount = Len(sent)
    /\ pendingFrames = Len(sent)
    /\ lastFrameSentTime = now - elapsed
    /\ currentAdaptiveFrameRate = Tenths(fr)
    /\ processingLatencies = window
    /\ frameDropCount = 0
    /\ isFrameBeingProcessed = (sent # << >>)
    /\ lastProcessedFrameTime = now
    /\ processingTimeoutWarning = NoTimer
    /\ processingFailsafeTimer = now + FailsafeTimeout
    /\ fallbackMode = FALSE
    /\ encoding = << >>
    /\ inflight = [i \in 1..Len(sent) |->
                     [timestamp |-> now - sent[i], frameId |-> i, quality |-> 80]]
    /\ decoding = << >>
    /\ ev = [name |-> "other", pending |-> pendingFrames, fallback |-> FALSE,
             streaming |-> TRUE]
    /\ activeSinceSuccess = TRUE
    /\ acceptedTotal = Len(sent)
    /\ envEvents = 0
    /\ isRecording = FALSE
    /\ recordingStartTime = 0
    /\ recordingFetches = << >>
    /\ recordingBtnDisabled = FALSE

NextFixed ==
  \/ TickTooSoon
  \/ TickHardDrop
  \/ TickSoftDrop
  \/ TickAccept(FixedMaxResults + FixedMaxFrames)
  \/ \E i \in 1..FixedMaxFrames : EncodeDone(i)
  \/ ProcessedFrame(1, TRUE, FALSE, 0)
  \/ DecodeOk(1)
  \/ DecodeFail(1)

SpecFixed == InitFixed /\ [][NextFixed]_vars

\* C38: with adaptive mode off no step changes currentAdaptiveFrameRate, the
\* effective rate is the configured frame rate, and an accepted frame is
\* encoded at the base quality; a sent frame still counts into
\* pendingFrames, a result still counts out of it, both drop rules still
\* drop and count, and a decoded result still pushes its latency sample.
C38_AdaptiveOffFixesRate ==
  [][~settings.adaptiveFrameRate =>
       /\ currentAdaptiveFrameRate' = currentAdaptiveFrameRate
       /\ GetEffectiveFrameRate = Tenths(settings.frameRate)
       /\ FrameAccepted => encoding'[Len(encoding')] = settings.videoQuality
       /\ FrameSent => pendingFrames' = pendingFrames + 1
       /\ ev'.name \in {"decoded", "decode_failed"} =>
            pendingFrames' = Max(0, pendingFrames - 1)
       /\ TickDrops =>
            /\ frameDropCount' = frameDropCount + 1
            /\ UNCHANGED << pendingFrames, encoding, inflight, acceptedTotal >>
       /\ ev'.name = "decoded" =>
            /\ Len(processingLatencies') =
                 Min(LatencyCapacity, Len(processingLatencies) + 1)
            /\ processingLatencies'[Len(processingLatencies')] =
                 now - Head(decoding)]_vars

\* adaptive mode off: a tick has hard-dropped a frame at pendingFrames = 4,
\* then a result was decoded and its sample pushed; the rate is still the
\* configured one
C38_DropAndResultAtFixedRate ==
  /\ ~settings.adaptiveFrameRate
  /\ frameDropCount = 1
  /\ ev.name = "decoded" /\ ev.pending = 4
  /\ processingLatencies # << >>
  /\ currentAdaptiveFrameRate = Tenths(settings.frameRate)

\* C39: startFrameCapture called while streaming (by video.onloadedmetadata
\* of a second initialisation) changes neither pendingFrames, the rate, the
\* latency window, frameDropCount nor the timer; called while stopped it
\* sets pendingFrames = 0, the rate to the configured frame rate, empties
\* the window, sets frameDropCount = 0 and clears isFrameBeingProcessed.
C39_StartResetsSession ==
  [][/\ (isStreaming /\ metadataPending /\ ~metadataPending') =>
          UNCHANGED << pendingFrames, currentAdaptiveFrameRate,
                       processingLatencies, frameDropCount, frameInterval >>
     /\ (~isStreaming /\ isStreaming') =>
          /\ pendingFrames' = 0
          /\ currentAdaptiveFrameRate' = Tenths(settings'.frameRate)
          /\ processingLatencies' = << >>
          /\ frameDropCount' = 0
          /\ ~isFrameBeingProcessed']_vars

\* C40: between a restart-feed click and the next session (the delayed
\* initCamera is still to come and capture is stopped) the controller is
\* Normal, neither the failsafe nor the stall warning is scheduled and
\* pendingFrames is 0, whatever callbacks of the old session arrive.
C40_CleanUntilRestart ==
  (restartInit # {} /\ ~isStreaming) =>
    /\ ~fallbackMode
    /\ ~Scheduled(processingFailsafeTimer)
    /\ ~Scheduled(processingTimeoutWarning)
    /\ pendingFrames = 0

(***************************************************************************)
(* SpecRecording: the recording button.  A session is started, the button  *)
(* is clicked, the server confirms or refuses each request or the request  *)
(* fails, and frames are sent before and after the maximum recording       *)
(* duration has passed.                                                    *)
(***************************************************************************)
RecordingMaxTime == 320000   \* SpecRecording: the clock stops here
RecordingMaxFrames == 1      \* SpecRecording: ticks accepted in one run
RecordingMaxClicks == 2      \* SpecRecording: clicks on the button
RecordingTimeSteps == {5 * 60000}
RecordingOutcomes == {"success", "refused", "error"}

\* toggleRecording, the click handler of toggleRecordingBtn
ToggleRecordingClick(maxEnv) ==
  /\ ~recordingBtnDisabled
  /\ envEvents < maxEnv
  /\ envEvents' = envEvents + 1
  /\ IF ~isRecording THEN startRecording ELSE stopRecording
  /\ ev' = Event("toggle_recording")
  /\ UNCHANGED << now, settings, connected, hidden, currentStream, cameraRequests,
                  metadataPending, restartInit, isStreaming, frameInterval,
                  frameCount, pendingFrames, lastFrameSentTime,
                  currentAdaptiveFrameRate, processingLatencies, frameDropCount,
                  isFrameBeingProcessed, lastProcessedFrameTime,
                  processingTimeoutWarning, processingFailsafeTimer, fallbackMode,
                  encoding, inflight, decoding, activeSinceSuccess, acceptedTotal >>

\* the i-th pending fetch settles: "success" is data.success, "refused" is a
\* body with success = false, "error" is an HTTP error or a network error
\* (the catch); the finally enables the button
RecordingResponse(i, outcome) ==
  /\ i \in DOMAIN recordingFetches
  /\ recordingFetches' = RemoveAt(recordingFetches, i)
  /\ recordingBtnDisabled' = FALSE
  /\ IF recordingFetches[i] = "start"
     THEN IF outcome = "success"
          THEN isRecording' = TRUE /\ recordingStartTime' = now
          ELSE UNCHANGED << isRecording, recordingStartTime >>
     ELSE isRecording' = FALSE /\ recordingStartTime' = 0
  /\ ev' = Event(IF outcome = "success" THEN "recording_success"
                 ELSE "recording_failure")
  /\ UNCHANGED << now, settings, connected, hidden, currentStream, cameraRequests,
                  metadataPending, restartInit, isStreaming, frameInterval,
                  frameCount, pendingFrames, lastFrameSentTime,
                  currentAdaptiveFrameRate, processingLatencies, frameDropCount,
                  isFrameBeingProcessed, lastProcessedFrameTime,
                  processingTimeoutWarning, processingFailsafeTimer, fallbackMode,
                  encoding, inflight, decoding, activeSinceSuccess, acceptedTotal,
                  envEvents >>

NextRecording ==
  \/ GetUserMediaOk
  \/ LoadedMetadata
  \/ Connect
  \/ TickAccept(RecordingMaxFrames)
  \/ \E i \in 1..RecordingMaxFrames : EncodeDone(i)
  \/ ToggleRecordingClick(RecordingMaxClicks)
  \/ \E i \in 1..(RecordingMaxClicks + RecordingMaxFrames),
        outcome \in RecordingOutcomes : RecordingResponse(i, outcome)
  \/ \E d \in RecordingTimeSteps : Advance(d, RecordingMaxTime)

SpecRecording == Init /\ [][NextRecording]_vars

\* C32: isRecording changes only when a request is confirmed with
\* success = true: a refused or failed start leaves it false, and a refused
\* or failed stop (success = false, HTTP error, network error) leaves it
\* true.
C32_FlagFlipsOnSuccessOnly ==
  [][/\ isRecording' # isRecording => ev'.name = "recording_success"
     /\ ev'.name = "recording_failure" => isRecording' = isRecording]_vars
====
